---- MODULE Spec2Model ----
(***************************************************************************)
(* SceneSense AI (src/app.py): the pure helpers (scene_splitter,           *)
(* extract_json_loose, the clamps, normalize_hex) and the batch loop of    *)
(* main, as state machines.                                                *)
(*                                                                         *)
(* Text is modelled by what the code reads of it.  For scene_splitter a    *)
(* string is a sequence of lines, each line [pre, body, head]:  pre        *)
(* leading whitespace characters, body   the characters from the first     *)
(* non-blank one to the end of the line (the body has no trailing          *)
(* whitespace), and head   whether the body begins with one of the four    *)
(* heading prefixes INT. EXT. INT/EXT. I/E. (the regular expression treats *)
(* the four alike).  A blank line has body 0.  For extract_json_loose a    *)
(* string is a sequence of one-character strings.                          *)
(***************************************************************************)
EXTENDS Integers, Sequences, FiniteSets, TLC

VARIABLES
    \* scene_splitter under test
    script_text, scenes, rescenes, spc,
    \* extract_json_loose and the type check of call_groq under test
    sample, text, data, rpc,
    \* clamp_intensity, clamp_confidence and normalize_hex under test
    arg, hex, clamped, reclamped, colour, npc,
    \* the batch tab of main: the environment (credential, client library),
    \* the uploaded file, the position in the handler, its locals scenes, i
    \* and results, and a log of what happened: the outbound requests
    \* issued (by scene index), the requests in flight, and how the
    \* call_groq of each scene ended
    api_key, groq_ok, up, pc, run_scenes, scene_i, results, calls, inflight, outcomes,
    \* how the external service behaves during the run
    service,
    \* the single scene tab of main: the position in the handler, the text
    \* of the text area, what the page shows to the user, and the number of
    \* outbound requests issued
    single_pc, scene_text, shown, single_calls

splitVars == <<script_text, scenes, rescenes, spc>>

recoverVars == <<sample, text, data, rpc>>

normVars == <<arg, hex, clamped, reclamped, colour, npc>>

batchVars ==
    <<api_key, groq_ok, up, pc, run_scenes, scene_i, results, calls, inflight, outcomes>>

singleVars == <<single_pc, scene_text, shown, single_calls>>

vars == <<script_text, scenes, rescenes, spc, sample, text, data, rpc,
          arg, hex, clamped, reclamped, colour, npc,
          api_key, groq_ok, up, pc, run_scenes, scene_i, results, calls, inflight,
          outcomes, service, single_pc, scene_text, shown, single_calls>>

(***************************************************************************)
(* Bounds of the model.                                                    *)
(***************************************************************************)
MaxLines == 3
MaxStrLen == 3
MaxRawLen == 4
MaxNum == 11
MaxHexLen == 7
MaxDocScenes == 3

(***************************************************************************)
(* Program constants.                                                      *)
(***************************************************************************)
MinScriptLen == 30
MinSceneLen == 60
MaxBatchScenes == 12
MinSingleLen == 30
MinIntensity == 1
MaxIntensity == 10
DefaultIntensity == 5
\* confidences are counted in hundredths: 0.75 is 75, 1.0 is 100
MinConfidence == 0
MaxConfidence == 100
DefaultConfidence == 75

(***************************************************************************)
(* Generic helpers.                                                        *)
(***************************************************************************)
SeqsUpTo(S, n) == UNION {[1..k -> S] : k \in 0..n}

SetMin(S) == CHOOSE a \in S : \A b \in S : a <= b

SetMax(S) == CHOOSE a \in S : \A b \in S : a >= b

RECURSIVE SumWidths(_)
SumWidths(ls) ==
    IF ls = <<>> THEN 0
    ELSE ls[1].pre + ls[1].body + SumWidths(Tail(ls))

(***************************************************************************)
(* Strings as lines.                                                       *)
(***************************************************************************)
EmptyLine == [pre |-> 0, body |-> 0, head |-> FALSE]

\* len(s) of a string whose line terminators are eol characters wide
\* (1 for "\n" or "\r", 2 for "\r\n")
StrLenEol(ls, eol) ==
    IF ls = <<>> THEN 0 ELSE SumWidths(ls) + (Len(ls) - 1) * eol

StrLen(ls) == StrLenEol(ls, 1)

\* str.strip(): leading and trailing whitespace (blank lines, the first
\* line's indentation) removed
Strip(ls) ==
    LET nonblank == {i \in 1..Len(ls) : ls[i].body > 0}
    IN  IF nonblank = {} THEN <<>>
        ELSE LET a == SetMin(nonblank)
                 b == SetMax(nonblank)
             IN  [i \in 1..(b - a + 1) |->
                    IF i = 1 THEN [ls[a] EXCEPT !.pre = 0] ELSE ls[a + i - 1]]

\* ^(?:INT\.|EXT\.|INT/EXT\.|I/E\.).*$ under re.MULTILINE: the line starts,
\* in its first column, with a heading prefix
IsHeadingAt(ls, i) == ls[i].pre = 0 /\ ls[i].body > 0 /\ ls[i].head

HeadingLines(ls) == {i \in 1..Len(ls) : IsHeadingAt(ls, i)}

\* re.split on the zero-width lookahead: the text is cut before every
\* heading line; a part that is not the last one keeps the "\n" that ended
\* its last line, and a heading in the first line leaves an empty first part
ReSplit(ls) ==
    LET H == HeadingLines(ls)
        n == Len(ls)
        NextCut(s) == IF \E h \in H : h > s
                      THEN SetMin({h \in H : h > s}) ELSE n + 1
        Part(s) == IF NextCut(s) = n + 1 THEN SubSeq(ls, s, n)
                   ELSE Append(SubSeq(ls, s, NextCut(s) - 1), EmptyLine)
        starts == {1} \cup H
        StartAt(k) == CHOOSE s \in starts :
                          Cardinality({h \in starts : h < s}) = k - 1
        parts == [k \in 1..Cardinality(starts) |-> Part(StartAt(k))]
    IN  IF n = 0 THEN << <<>> >>
        ELSE IF 1 \in H THEN << <<>> >> \o parts
        ELSE parts

\* a variant with no minimum segment length
KeepAllScenes(parts) ==
    SelectSeq([k \in 1..Len(parts) |-> Strip(parts[k])],
              LAMBDA p : StrLen(p) >= 0)

\* lines 224-228: trim every part, keep those of at least 60 characters
KeepLongScenes(parts) ==
    SelectSeq([k \in 1..Len(parts) |-> Strip(parts[k])],
              LAMBDA p : StrLen(p) >= MinSceneLen)

(***************************************************************************)
(* Mutants of scene_splitter used to show that the claims below depend on  *)
(* it.                                                                     *)
(***************************************************************************)
\* without the guard of lines 214-215
scene_splitter_NoGuard(doc) ==
    LET t == doc.lines
        found == KeepLongScenes(ReSplit(t))
    IN  IF found # <<>> THEN found ELSE <<Strip(t)>>

\* without the fallback of line 230
scene_splitter_NoFallback(doc) ==
    IF doc.lines = <<>> \/ StrLenEol(doc.lines, doc.eol) = 0
       \/ StrLenEol(Strip(doc.lines), doc.eol) < MinScriptLen
    THEN <<>>
    ELSE KeepLongScenes(ReSplit(doc.lines))

\* scene_splitter(script_text); a document is [lines, eol]
scene_splitter(doc) ==
    IF doc.lines = <<>> \/ StrLenEol(doc.lines, doc.eol) = 0
       \/ StrLenEol(Strip(doc.lines), doc.eol) < MinScriptLen
    THEN <<>>
    ELSE LET t == doc.lines
             found == KeepLongScenes(ReSplit(t))
         IN  IF found # <<>> THEN found ELSE <<Strip(t)>>

(***************************************************************************)
(* Strings as characters, and JSON values.  A value is [t, v]: t its       *)
(* Python type, v its content (a number's digits, a string's characters,   *)
(* a list's items, a dict's <<key, value>> pairs in insertion order).      *)
(***************************************************************************)
Quote == "\""

JNull == [t |-> "null", v |-> <<>>]

JNum(ds) == [t |-> "num", v |-> ds]

JStr(cs) == [t |-> "str", v |-> cs]

JArr(xs) == [t |-> "arr", v |-> xs]

JObj(ms) == [t |-> "obj", v |-> ms]

At(s, i) == IF i >= 1 /\ i <= Len(s) THEN s[i] ELSE ""

\* the whitespace json.loads skips between tokens
JsonWs == {" ", "\t", "\n", "\r"}

\* characters a JSON string may not hold unescaped (strict mode)
ControlChars == {"\t", "\n", "\r"}

Digits == {"1"}

RECURSIVE SkipWs(_, _)
SkipWs(s, i) ==
    IF i <= Len(s) /\ s[i] \in JsonWs THEN SkipWs(s, i + 1) ELSE i

RECURSIVE DigitsEnd(_, _)
DigitsEnd(s, i) ==
    IF i <= Len(s) /\ s[i] \in Digits THEN DigitsEnd(s, i + 1) ELSE i

ScanFail == [ok |-> FALSE, val |-> JNull, next |-> 0]

ScanOk(v, n) == [ok |-> TRUE, val |-> v, next |-> n]

\* dict[key] = value: a repeated key keeps its place and takes the new value
DictSet(ms, key, value) ==
    IF \E k \in 1..Len(ms) : ms[k][1] = key
    THEN [k \in 1..Len(ms) |-> IF ms[k][1] = key THEN <<key, value>> ELSE ms[k]]
    ELSE Append(ms, <<key, value>>)

\* json.decoder.scanstring from the opening quote at i (the texts of the
\* model hold no backslash)
ScanString(s, i) ==
    LET qs == {j \in (i + 1)..Len(s) : s[j] = Quote}
    IN  IF qs = {} THEN ScanFail
        ELSE LET j == SetMin(qs)
                 body == SubSeq(s, i + 1, j - 1)
             IN  IF \E k \in 1..Len(body) : body[k] \in ControlChars
                 THEN ScanFail
                 ELSE ScanOk(JStr(body), j + 1)

ScanNumber(s, i) == ScanOk(JNum(SubSeq(s, i, DigitsEnd(s, i) - 1)), DigitsEnd(s, i))

RECURSIVE ScanOnce(_, _), ScanMembers(_, _, _), ScanElements(_, _, _)

\* json.scanner.scan_once at position i
ScanOnce(s, i) ==
    LET c == At(s, i)
    IN  IF c = Quote THEN ScanString(s, i)
        ELSE IF c = "{" THEN
            LET j == SkipWs(s, i + 1)
            IN  IF At(s, j) = "}" THEN ScanOk(JObj(<<>>), j + 1)
                ELSE IF At(s, j) = Quote THEN ScanMembers(s, j, <<>>)
                ELSE ScanFail
        ELSE IF c = "[" THEN
            LET j == SkipWs(s, i + 1)
            IN  IF At(s, j) = "]" THEN ScanOk(JArr(<<>>), j + 1)
                ELSE ScanElements(s, j, <<>>)
        ELSE IF c = "n" THEN
            IF i + 3 <= Len(s) /\ SubSeq(s, i, i + 3) = <<"n", "u", "l", "l">>
            THEN ScanOk(JNull, i + 4) ELSE ScanFail
        ELSE IF c \in Digits THEN ScanNumber(s, i)
        ELSE ScanFail

\* json.decoder.JSONObject from the quote of a key at j
ScanMembers(s, j, acc) ==
    LET key == ScanString(s, j)
        k == SkipWs(s, key.next)
        val == ScanOnce(s, SkipWs(s, k + 1))
        m == SkipWs(s, val.next)
        acc2 == DictSet(acc, key.val.v, val.val)
        n == SkipWs(s, m + 1)
    IN  IF ~key.ok \/ At(s, k) # ":" THEN ScanFail
        ELSE IF ~val.ok THEN ScanFail
        ELSE IF At(s, m) = "}" THEN ScanOk(JObj(acc2), m + 1)
        ELSE IF At(s, m) = "," /\ At(s, n) = Quote THEN ScanMembers(s, n, acc2)
        ELSE ScanFail

\* json.decoder.JSONArray from the first character of an item at j
ScanElements(s, j, acc) ==
    LET val == ScanOnce(s, j)
        m == SkipWs(s, val.next)
        acc2 == Append(acc, val.val)
    IN  IF ~val.ok THEN ScanFail
        ELSE IF At(s, m) = "]" THEN ScanOk(JArr(acc2), m + 1)
        ELSE IF At(s, m) = "," THEN ScanElements(s, SkipWs(s, m + 1), acc2)
        ELSE ScanFail

\* json.loads(s): [ok, val]; ok FALSE stands for the exception raised
Loads(s) ==
    LET r == ScanOnce(s, SkipWs(s, 1))
    IN  IF r.ok /\ SkipWs(s, r.next) = Len(s) + 1
        THEN [ok |-> TRUE, val |-> r.val]
        ELSE [ok |-> FALSE, val |-> JNull]

RECURSIVE JoinSeqs(_, _)
JoinSeqs(parts, sep) ==
    IF parts = <<>> THEN <<>>
    ELSE IF Len(parts) = 1 THEN parts[1]
    ELSE parts[1] \o sep \o JoinSeqs(Tail(parts), sep)

\* json.dumps(value) with the default separators
RECURSIVE Dumps(_)
Dumps(x) ==
    IF x.t = "null" THEN <<"n", "u", "l", "l">>
    ELSE IF x.t = "num" THEN x.v
    ELSE IF x.t = "str" THEN <<Quote>> \o x.v \o <<Quote>>
    ELSE IF x.t = "arr" THEN
        <<"[">> \o JoinSeqs([k \in 1..Len(x.v) |-> Dumps(x.v[k])], <<",", " ">>)
                \o <<"]">>
    ELSE
        <<"{">> \o JoinSeqs([k \in 1..Len(x.v) |->
                                <<Quote>> \o x.v[k][1] \o <<Quote, ":", " ">>
                                    \o Dumps(x.v[k][2])],
                            <<",", " ">>)
                \o <<"}">>

(***************************************************************************)
(* extract_json_loose.                                                     *)
(***************************************************************************)
Lower(c) ==
    IF c = "J" THEN "j" ELSE IF c = "S" THEN "s"
    ELSE IF c = "O" THEN "o" ELSE IF c = "N" THEN "n" ELSE c

HasAt(s, i, word) ==
    /\ i + Len(word) - 1 <= Len(s)
    /\ \A k \in 1..Len(word) : Lower(s[i + k - 1]) = word[k]

\* the backtick character (the TLA+ lexer takes none inside a string)
Tick == "tick"

Backticks3 == <<Tick, Tick, Tick>>

\* re.sub of line 186: every run of three backticks, with a "json" (in
\* either case) that follows it, is removed
RECURSIVE RemoveFences(_, _)
RemoveFences(s, i) ==
    IF i > Len(s) THEN <<>>
    ELSE IF HasAt(s, i, Backticks3)
         THEN IF HasAt(s, i + 3, <<"j", "s", "o", "n">>)
              THEN RemoveFences(s, i + 7)
              ELSE RemoveFences(s, i + 3)
         ELSE <<s[i]>> \o RemoveFences(s, i + 1)

\* the characters .strip() of line 186 removes: backtick, space, \n, \t
StripSet == {Tick, " ", "\n", "\t"}

StripChars(s) ==
    LET keep == {i \in 1..Len(s) : s[i] \notin StripSet}
    IN  IF keep = {} THEN <<>> ELSE SubSeq(s, SetMin(keep), SetMax(keep))

\* re.search(r"\{.*\}", text2, flags=re.DOTALL): from the first "{" that
\* has a "}" after it to the last "}"
HasBlob(s) == \E i, j \in 1..Len(s) : i < j /\ s[i] = "{" /\ s[j] = "}"

Blob(s) ==
    LET a == SetMin({i \in 1..Len(s) : s[i] = "{"})
        b == SetMax({j \in 1..Len(s) : s[j] = "}"})
    IN  SubSeq(s, a, b)

\* \s of the regular expression
ReSpace == {" ", "\t", "\n", "\r"}

RECURSIVE SkipSpace(_, _)
SkipSpace(s, i) ==
    IF i <= Len(s) /\ s[i] \in ReSpace THEN SkipSpace(s, i + 1) ELSE i

\* re.sub(r",(\s*[}\]])", r"\1", blob)
RECURSIVE DropTrailingCommas(_, _)
DropTrailingCommas(s, i) ==
    IF i > Len(s) THEN <<>>
    ELSE IF s[i] = "," /\ At(s, SkipSpace(s, i + 1)) \in {"}", "]"}
         THEN SubSeq(s, i + 1, SkipSpace(s, i + 1))
                  \o DropTrailingCommas(s, SkipSpace(s, i + 1) + 1)
         ELSE <<s[i]>> \o DropTrailingCommas(s, i + 1)

\* extract_json_loose(text): the value returned, JNull for None
extract_json_loose(txt) ==
    IF txt = <<>> THEN JNull
    ELSE LET text2 == StripChars(RemoveFences(txt, 1))
             direct == Loads(text2)
         IN  IF direct.ok THEN direct.val
             ELSE IF ~HasBlob(text2) THEN JNull
             ELSE LET blob == Blob(text2)
                      second == Loads(blob)
                      blob2 == DropTrailingCommas(blob, 1)
                      third == Loads(blob2)
                  IN  IF second.ok THEN second.val
                      ELSE IF third.ok THEN third.val
                      ELSE JNull

\* a call_groq that hands on whatever was recovered
ParseReply_NoTypeCheck(txt) ==
    LET d == extract_json_loose(txt)
    IN  IF d.t # "null" THEN [kind |-> "record", val |-> d]
        ELSE [kind |-> "error", val |-> JNull]

\* call_groq, lines 328-331: the recovered value is returned when it is a
\* dict, and RuntimeError("Model returned non-JSON or invalid JSON...")
\* is raised otherwise
ParseReply(txt) ==
    LET d == extract_json_loose(txt)
    IN  IF d.t = "obj" THEN [kind |-> "record", val |-> d]
        ELSE [kind |-> "error", val |-> JNull]

(***************************************************************************)
(* The texts extract_json_loose is tried on: every short text over         *)
(* RawChars, and the serialisation of a record, bare or with a trailing    *)
(* comma injected before its k-th closing brace or bracket, in a code      *)
(* fence, and between words of commentary.                                 *)
(***************************************************************************)
RawChars == {"{", "}", "[", "]", ",", Quote, "1", Tick}

RawTexts == SeqsUpTo(RawChars, MaxRawLen)

StrChars == {"a", ",", "}", Tick}

Strings == SeqsUpTo(StrChars, MaxStrLen)

One == JNum(<<"1">>)

Eleven == JNum(<<"1", "1">>)

Values ==
    {JStr(cs) : cs \in Strings}
    \cup {One, Eleven, JNull, JArr(<<>>), JArr(<<One>>),
          JArr(<<One, JStr(<<",", "]">>)>>),
          JObj(<<>>), JObj(<< <<<<"b">>, One>> >>)}

Records ==
    {JObj(<<>>)}
    \cup {JObj(<< <<<<"a">>, x>> >>) : x \in Values}
    \cup {JObj(<< <<<<"a">>, x>>, <<<<"b">>, y>> >>) :
            x \in Values, y \in {Eleven, JArr(<<One>>)}}

\* the closing braces and brackets of a serialisation that are not inside
\* a string
Closers(s) ==
    {i \in 1..Len(s) :
        /\ s[i] \in {"}", "]"}
        /\ Cardinality({j \in 1..(i - 1) : s[j] = Quote}) % 2 = 0}

InjectComma(s, k) ==
    IF k = 0 THEN s
    ELSE LET C == Closers(s)
             i == CHOOSE c \in C : Cardinality({d \in C : d < c}) = k - 1
         IN  SubSeq(s, 1, i - 1) \o <<",">> \o SubSeq(s, i, Len(s))

FenceTags == {"bare", "json", "JSON"}

FenceOpen(f) ==
    IF f = "json" THEN Backticks3 \o <<"j", "s", "o", "n">>
    ELSE IF f = "JSON" THEN Backticks3 \o <<"J", "S", "O", "N">>
    ELSE Backticks3

Fenced(s, f) ==
    IF f = "none" THEN s
    ELSE FenceOpen(f) \o <<"\n">> \o s \o <<"\n">> \o Backticks3

Render(sm) ==
    IF sm.kind = "raw" THEN sm.raw
    ELSE LET body == Fenced(InjectComma(Dumps(sm.r), sm.comma), sm.fence)
         IN  IF sm.prose THEN <<"a", " ">> \o body \o <<" ", "a">> ELSE body

Samples ==
    {[kind |-> "raw", raw |-> t, r |-> JNull, comma |-> 0, fence |-> "none",
      prose |-> FALSE] : t \in RawTexts}
    \cup UNION {
        {[kind |-> "record", raw |-> <<>>, r |-> r, comma |-> k, fence |-> f,
          prose |-> p] :
            k \in 0..Cardinality(Closers(Dumps(r))),
            f \in {"none"} \cup FenceTags,
            p \in BOOLEAN} : r \in Records}

(***************************************************************************)
(* extract_json_loose and the type check of call_groq applied to a text.   *)
(***************************************************************************)
NoData == [kind |-> "none", val |-> JNull]

RecoverIdle ==
    /\ sample = [kind |-> "raw", raw |-> <<>>, r |-> JNull, comma |-> 0,
                 fence |-> "none", prose |-> FALSE]
    /\ text = <<>>
    /\ data = NoData
    /\ rpc = "off"

RecoverInit ==
    /\ sample \in Samples
    /\ text = Render(sample)
    /\ data = NoData
    /\ rpc = "input"

Recover ==
    /\ rpc = "input"
    /\ data' = ParseReply(text)
    /\ rpc' = "done"
    /\ UNCHANGED <<sample, text>>
    /\ UNCHANGED <<splitVars, normVars, batchVars, service, singleVars>>

(***************************************************************************)
(* Field normalisation.  A Python value handed to a clamp is [t, h]: t its *)
(* kind and h its numeric value in hundredths (7 is 700, 0.75 is 75).      *)
(* Kinds: "int", "bool", "float" (finite), "nan", "inf", "ninf" (the       *)
(* floats nan, inf and -inf), "intstr" (a string such as "7"), "decstr" (a *)
(* string such as "7.5" or "7.0"), "junk" (any other string), "none" and   *)
(* "list".                                                                 *)
(***************************************************************************)
PyValue(t, h) == [t |-> t, h |-> h]

\* int(x): [ok, n]; ok FALSE stands for the exception raised
IntOf(v) ==
    IF v.t \in {"int", "bool", "intstr"} THEN [ok |-> TRUE, n |-> v.h \div 100]
    ELSE IF v.t = "float"
         THEN [ok |-> TRUE,
               n |-> IF v.h >= 0 THEN v.h \div 100 ELSE -((-v.h) \div 100)]
    ELSE [ok |-> FALSE, n |-> 0]

\* float(x): [ok, k, h] with k one of "fin", "nan", "inf", "ninf"
FloatOf(v) ==
    IF v.t \in {"int", "bool", "float", "intstr", "decstr"}
    THEN [ok |-> TRUE, k |-> "fin", h |-> v.h]
    ELSE IF v.t \in {"nan", "inf", "ninf"} THEN [ok |-> TRUE, k |-> v.t, h |-> 0]
    ELSE [ok |-> FALSE, k |-> "fin", h |-> 0]

\* a < b on floats; every comparison with nan is False
FloatLess(a, b) ==
    IF a.k = "nan" \/ b.k = "nan" THEN FALSE
    ELSE IF a.k = "ninf" THEN b.k # "ninf"
    ELSE IF a.k = "inf" THEN FALSE
    ELSE IF b.k = "inf" THEN TRUE
    ELSE IF b.k = "ninf" THEN FALSE
    ELSE a.h < b.h

\* Python's min(a, b) and max(a, b): the first argument unless the second
\* compares smaller (larger)
PyMin(a, b) == IF FloatLess(b, a) THEN b ELSE a

PyMax(a, b) == IF FloatLess(a, b) THEN b ELSE a

Fin(h) == [ok |-> TRUE, k |-> "fin", h |-> h]

\* a clamp_intensity that forgets the upper bound
clamp_intensity_NoUpper(v) ==
    IF IntOf(v).ok
    THEN IF IntOf(v).n < MinIntensity THEN MinIntensity ELSE IntOf(v).n
    ELSE DefaultIntensity

\* clamp_intensity(x): max(1, min(10, int(x))), 5 when int(x) raises
clamp_intensity(v) ==
    IF IntOf(v).ok
    THEN LET n == IntOf(v).n
             low == IF MaxIntensity < n THEN MaxIntensity ELSE n
         IN  IF MinIntensity > low THEN MinIntensity ELSE low
    ELSE DefaultIntensity

\* clamp_confidence(x): max(0.0, min(1.0, float(x))) in hundredths, 0.75
\* when float(x) raises
clamp_confidence(v) ==
    IF FloatOf(v).ok
    THEN PyMax(Fin(MinConfidence), PyMin(Fin(MaxConfidence), FloatOf(v))).h
    ELSE DefaultConfidence

HexDefault == <<"#", "1", "1", "1", "1", "1", "1">>

\* str.strip(): whitespace removed at both ends
HexSpace == {" ", "\t", "\n", "\r"}

StripSpace(s) ==
    LET keep == {i \in 1..Len(s) : s[i] \notin HexSpace}
    IN  IF keep = {} THEN <<>> ELSE SubSeq(s, SetMin(keep), SetMax(keep))

\* "".join([c * 2 for c in h[1:]])
RECURSIVE DoubleEach(_)
DoubleEach(s) ==
    IF s = <<>> THEN <<>> ELSE <<s[1], s[1]>> \o DoubleEach(Tail(s))

\* normalize_hex(h)
normalize_hex(h) ==
    IF h = <<>> THEN HexDefault
    ELSE LET h1 == StripSpace(h)
             h2 == IF Len(h1) > 0 /\ h1[1] = "#" THEN h1 ELSE <<"#">> \o h1
             h3 == IF Len(h2) = 4 THEN <<"#">> \o DoubleEach(Tail(h2)) ELSE h2
         IN  IF Len(h3) # 7 THEN HexDefault ELSE h3

(***************************************************************************)
(* The values the clamps and normalize_hex are tried on.                   *)
(***************************************************************************)
Wholes == {100 * n : n \in (-1)..MaxNum}

Fractions == {h \in (-100)..(100 * MaxNum) : h % 25 = 0}

ClampInputs ==
    {PyValue(t, h) : t \in {"int", "intstr"}, h \in Wholes}
    \cup {PyValue(t, h) : t \in {"float", "decstr"}, h \in Fractions}
    \cup {PyValue("bool", h) : h \in {0, 100}}
    \cup {PyValue(t, 0) : t \in {"nan", "inf", "ninf", "junk", "none", "list"}}

HexChars == {"#", "1", "z"}

HexInputs ==
    LET cores == SeqsUpTo(HexChars, MaxHexLen)
    IN  cores \cup {<<" ">> \o c \o <<"\n">> : c \in cores}

NormIdle ==
    /\ arg = PyValue("none", 0)
    /\ hex = <<>>
    /\ clamped = 0
    /\ reclamped = 0
    /\ colour = <<>>
    /\ npc = "off"

NormInit ==
    /\ \/ arg \in ClampInputs /\ hex = <<>> /\ npc = "number"
       \/ arg = PyValue("none", 0) /\ hex \in HexInputs /\ npc = "string"
    /\ clamped = 0
    /\ reclamped = 0
    /\ colour = <<>>

ClampIntensity ==
    /\ npc = "number"
    /\ clamped' = clamp_intensity(arg)
    /\ npc' = "intensity"
    /\ UNCHANGED <<arg, hex, reclamped, colour>>
    /\ UNCHANGED <<splitVars, recoverVars, batchVars, service, singleVars>>

ReclampIntensity ==
    /\ npc = "intensity"
    /\ reclamped' = clamp_intensity(PyValue("int", 100 * clamped))
    /\ npc' = "intensity2"
    /\ UNCHANGED <<arg, hex, clamped, colour>>
    /\ UNCHANGED <<splitVars, recoverVars, batchVars, service, singleVars>>

ClampConfidence ==
    /\ npc = "number"
    /\ clamped' = clamp_confidence(arg)
    /\ npc' = "confidence"
    /\ UNCHANGED <<arg, hex, reclamped, colour>>
    /\ UNCHANGED <<splitVars, recoverVars, batchVars, service, singleVars>>

ReclampConfidence ==
    /\ npc = "confidence"
    /\ reclamped' = clamp_confidence(PyValue("float", clamped))
    /\ npc' = "confidence2"
    /\ UNCHANGED <<arg, hex, clamped, colour>>
    /\ UNCHANGED <<splitVars, recoverVars, batchVars, service, singleVars>>

NormalizeHex ==
    /\ npc = "string"
    /\ colour' = normalize_hex(hex)
    /\ npc' = "hex"
    /\ UNCHANGED <<arg, hex, clamped, reclamped>>
    /\ UNCHANGED <<splitVars, recoverVars, batchVars, service, singleVars>>

(***************************************************************************)
(* The batch tab of main (lines 776-824).  The handler runs from the click *)
(* to the summary; the model cuts it where it blocks on the external       *)
(* service, at client.chat.completions.create inside call_groq.            *)
(***************************************************************************)
KeyEmotion == <<"e", "m", "o", "t", "i", "o", "n">>

KeyGenre == <<"g", "e", "n", "r", "e">>

KeyTone == <<"t", "o", "n", "e">>

KeyIntensity == <<"i", "n", "t", "e", "n", "s", "i", "t", "y">>

KeyConfidence == <<"c", "o", "n", "f", "i", "d", "e", "n", "c", "e">>

EmptyStr == JStr(<<>>)

\* safe_get(d, key, default): d.get(key, default), and default for None
safe_get(d, key, default) ==
    LET hits == {k \in 1..Len(d.v) : d.v[k][1] = key}
        found == IF hits = {} THEN default ELSE d.v[SetMin(hits)][2]
    IN  IF found.t = "null" THEN default ELSE found

RECURSIVE NumberOf(_)
NumberOf(ds) ==
    IF ds = <<>> THEN 0 ELSE 10 * NumberOf(SubSeq(ds, 1, Len(ds) - 1)) + 1

\* a value of a recovered record as the clamps see it
AsPyValue(v) ==
    IF v.t = "num" THEN PyValue("int", 100 * NumberOf(v.v))
    ELSE IF v.t = "str"
         THEN IF v.v # <<>> /\ \A k \in 1..Len(v.v) : v.v[k] \in Digits
              THEN PyValue("intstr", 100 * NumberOf(v.v))
              ELSE PyValue("junk", 0)
    ELSE IF v.t = "null" THEN PyValue("none", 0)
    ELSE PyValue("list", 0)

\* a row that takes intensity and confidence from the record as they are
SuccessRow_Unclamped(k, d) ==
    [scene_index |-> k,
     emotion |-> safe_get(d, KeyEmotion, EmptyStr),
     genre |-> safe_get(d, KeyGenre, EmptyStr),
     tone |-> safe_get(d, KeyTone, EmptyStr),
     intensity |->
        IF IntOf(AsPyValue(safe_get(d, KeyIntensity, JNull))).ok
        THEN IntOf(AsPyValue(safe_get(d, KeyIntensity, JNull))).n
        ELSE DefaultIntensity,
     confidence |->
        IF FloatOf(AsPyValue(safe_get(d, KeyConfidence, JNull))).ok
        THEN FloatOf(AsPyValue(safe_get(d, KeyConfidence, JNull))).h
        ELSE DefaultConfidence,
     error |-> "",
     failed |-> FALSE]

\* lines 803-810: the row of a scene whose call returned a record; the
\* defaults 5 and 0.75 are Python numbers.  The row has no error key:
\* failed is FALSE and the error field is unused
SuccessRow(k, d) ==
    [scene_index |-> k,
     emotion |-> safe_get(d, KeyEmotion, EmptyStr),
     genre |-> safe_get(d, KeyGenre, EmptyStr),
     tone |-> safe_get(d, KeyTone, EmptyStr),
     intensity |->
        IF safe_get(d, KeyIntensity, JNull).t = "null"
        THEN clamp_intensity(PyValue("int", 100 * DefaultIntensity))
        ELSE clamp_intensity(AsPyValue(safe_get(d, KeyIntensity, JNull))),
     confidence |->
        IF safe_get(d, KeyConfidence, JNull).t = "null"
        THEN clamp_confidence(PyValue("float", DefaultConfidence))
        ELSE clamp_confidence(AsPyValue(safe_get(d, KeyConfidence, JNull))),
     error |-> "",
     failed |-> FALSE]

\* lines 812-820: the row of a scene whose call raised; its cells are
\* empty strings (0 stands for the empty intensity and confidence cells)
\* and error holds str(e), here the kind of the exception
ErrorRow(k, msg) ==
    [scene_index |-> k,
     emotion |-> EmptyStr,
     genre |-> EmptyStr,
     tone |-> EmptyStr,
     intensity |-> 0,
     confidence |-> 0,
     error |-> msg,
     failed |-> TRUE]

\* a handler without the except clause: the exception ends the run
CaughtFailure_Abort(msg) ==
    /\ pc' = "crashed"
    /\ UNCHANGED <<results, scene_i>>

\* a handler that tries the scene again instead of recording the failure
CaughtFailure_Retry(msg) ==
    /\ pc' = "batch_loop"
    /\ UNCHANGED <<results, scene_i>>

\* lines 811-822: except Exception as e: the error row is appended and the
\* loop goes on with the next scene
CaughtFailure(msg) ==
    /\ results' = Append(results, ErrorRow(scene_i, msg))
    /\ scene_i' = scene_i + 1
    /\ pc' = "batch_loop"

\* the replies of the external service the batch is tried on: a fenced
\* record with a trailing comma and intensity 11 (the spec's example), a
\* record with a text for intensity and confidence 11, an empty record, a
\* list, and an empty content
ExampleRecord ==
    JObj(<< <<KeyEmotion, JStr(<<"a">>)>>, <<KeyIntensity, Eleven>> >>)

ExampleReply == Fenced(InjectComma(Dumps(ExampleRecord), 1), "json")

OddRecord ==
    JObj(<< <<KeyIntensity, JStr(<<"a">>)>>, <<KeyConfidence, Eleven>> >>)

Replies ==
    {ExampleReply, Dumps(OddRecord), Dumps(JObj(<<>>)), Dumps(JArr(<<One>>)),
     <<>>}

\* the behaviours of the external service: "any" answers each request
\* with any of the replies or an exception, "up" always answers with the
\* empty record, "down" always raises
Services == {"any", "up", "down"}

ServiceRaises == service \in {"any", "down"}

ServiceReplies ==
    IF service = "any" THEN Replies
    ELSE IF service = "up" THEN {Dumps(JObj(<<>>))} ELSE {}

\* the uploads the batch is tried on: none, and documents of k heading
\* lines of 60 characters (k = 0: an empty file), and one of two short
\* headings that comes back as a single fallback scene
NoUpload == [present |-> FALSE, doc |-> [lines |-> <<>>, eol |-> 1]]

Upload(doc) == [present |-> TRUE, doc |-> doc]

HeadingDoc(k, n) ==
    [lines |-> [j \in 1..k |-> [pre |-> 0, body |-> n, head |-> TRUE]], eol |-> 1]

\* a document of one scene more than the batch analyses, the k-th scene
\* being a heading line of 60 + k characters
LongDoc ==
    [lines |-> [j \in 1..(MaxBatchScenes + 1) |->
                   [pre |-> 0, body |-> MinSceneLen + j, head |-> TRUE]],
     eol |-> 1]

Uploads ==
    {NoUpload, Upload(HeadingDoc(2, 24)), Upload(LongDoc)}
    \cup {Upload(HeadingDoc(k, 60)) : k \in 0..MaxDocScenes}

BatchIdle ==
    /\ api_key = FALSE
    /\ groq_ok = FALSE
    /\ up = NoUpload
    /\ pc = "off"
    /\ service = "any"
    /\ run_scenes = <<>>
    /\ scene_i = 0
    /\ results = <<>>
    /\ calls = <<>>
    /\ inflight = {}
    /\ outcomes = <<>>

\* the long document is run against a service that is up or down for
\* the whole run, the others against every pattern of answers
BatchInit ==
    /\ api_key \in BOOLEAN
    /\ groq_ok \in BOOLEAN
    /\ up \in Uploads
    /\ service \in Services
    /\ Len(up.doc.lines) > MaxDocScenes => service # "any"
    /\ pc = "idle"
    /\ run_scenes = <<>>
    /\ scene_i = 0
    /\ results = <<>>
    /\ calls = <<>>
    /\ inflight = {}
    /\ outcomes = <<>>

\* a handler that analyses every scene of the document
BatchRun_NoCap ==
    /\ pc = "idle"
    /\ single_pc = "idle"
    /\ IF ~up.present \/ scene_splitter(up.doc) = <<>>
       THEN /\ pc' = "batch_warned"
            /\ UNCHANGED <<run_scenes, scene_i, results>>
       ELSE /\ run_scenes' = scene_splitter(up.doc)
            /\ results' = <<>>
            /\ scene_i' = 1
            /\ pc' = "batch_loop"
    /\ UNCHANGED <<api_key, groq_ok, up, calls, inflight, outcomes>>
    /\ UNCHANGED <<splitVars, recoverVars, normVars, service, singleVars>>

\* lines 776-793: the click on Run Batch Analysis up to the loop
BatchRun ==
    /\ pc = "idle"
    /\ single_pc = "idle"
    /\ IF ~up.present \/ scene_splitter(up.doc) = <<>>
       THEN /\ pc' = "batch_warned"
            /\ UNCHANGED <<run_scenes, scene_i, results>>
       ELSE /\ run_scenes' =
                 SubSeq(scene_splitter(up.doc), 1,
                        IF Len(scene_splitter(up.doc)) < MaxBatchScenes
                        THEN Len(scene_splitter(up.doc)) ELSE MaxBatchScenes)
            /\ results' = <<>>
            /\ scene_i' = 1
            /\ pc' = "batch_loop"
    /\ UNCHANGED <<api_key, groq_ok, up, calls, inflight, outcomes>>
    /\ UNCHANGED <<splitVars, recoverVars, normVars, service, singleVars>>

\* call_groq, lines 304-311: no credential or no client library, the
\* RuntimeError is raised before any request is made
CallGroqRefused ==
    /\ pc = "batch_loop"
    /\ scene_i <= Len(run_scenes)
    /\ ~api_key \/ ~groq_ok
    /\ outcomes' = Append(outcomes, IF ~api_key THEN "no_api_key" ELSE "no_groq")
    /\ CaughtFailure(IF ~api_key THEN "no_api_key" ELSE "no_groq")
    /\ UNCHANGED <<api_key, groq_ok, up, run_scenes, calls, inflight>>
    /\ UNCHANGED <<splitVars, recoverVars, normVars, service, singleVars>>

\* call_groq, lines 313-325: the request for scene scene_i goes out and the
\* handler blocks on it
CallGroqSend ==
    /\ pc = "batch_loop"
    /\ scene_i <= Len(run_scenes)
    /\ api_key /\ groq_ok
    /\ calls' = Append(calls, scene_i)
    /\ inflight' = inflight \cup {scene_i}
    /\ pc' = "batch_calling"
    /\ UNCHANGED <<api_key, groq_ok, up, run_scenes, scene_i, results, outcomes>>
    /\ UNCHANGED <<splitVars, recoverVars, normVars, service, singleVars>>

\* the request raises (network, authentication, rate limit)
CallGroqRaises ==
    /\ pc = "batch_calling"
    /\ ServiceRaises
    /\ inflight' = inflight \ {scene_i}
    /\ outcomes' = Append(outcomes, "transport")
    /\ CaughtFailure("transport")
    /\ UNCHANGED <<api_key, groq_ok, up, run_scenes, calls>>
    /\ UNCHANGED <<splitVars, recoverVars, normVars, service, singleVars>>

\* the request returns a text: call_groq, lines 327-331, then the row of
\* lines 803-810, or the except clause when the text holds no record
CallGroqReturns ==
    /\ pc = "batch_calling"
    /\ \E reply \in ServiceReplies :
         IF ParseReply(reply).kind = "record"
         THEN /\ outcomes' = Append(outcomes, "ok")
              /\ results' = Append(results, SuccessRow(scene_i, ParseReply(reply).val))
              /\ scene_i' = scene_i + 1
              /\ pc' = "batch_loop"
         ELSE /\ outcomes' = Append(outcomes, "parse")
              /\ CaughtFailure("parse")
    /\ inflight' = inflight \ {scene_i}
    /\ UNCHANGED <<api_key, groq_ok, up, run_scenes, calls>>
    /\ UNCHANGED <<splitVars, recoverVars, normVars, service, singleVars>>

\* lines 824-839: the loop is over, the summary is shown
BatchFinish ==
    /\ pc = "batch_loop"
    /\ scene_i > Len(run_scenes)
    /\ pc' = "batch_done"
    /\ UNCHANGED <<api_key, groq_ok, up, run_scenes, scene_i, results, calls,
                   inflight, outcomes>>
    /\ UNCHANGED <<splitVars, recoverVars, normVars, service, singleVars>>

(***************************************************************************)
(* The single scene tab of main (lines 702-766): the click on Analyze      *)
(* Scene, the same call_groq, and what the page shows afterwards.  The     *)
(* replies tried hold no shot list and no palette, for which the cards     *)
(* and exports of lines 722-766 are drawn without a further call.          *)
(***************************************************************************)
OneLine(n) ==
    [lines |-> <<[pre |-> 0, body |-> n, head |-> FALSE]>>, eol |-> 1]

\* the texts of the text area: empty, blanks only, 29 and 30 characters,
\* and a scene of 60 characters
SceneTexts ==
    {[lines |-> <<>>, eol |-> 1], OneLine(0), OneLine(MinSingleLen - 1),
     OneLine(MinSingleLen), OneLine(MinSceneLen)}

SingleIdle ==
    /\ single_pc = "off"
    /\ scene_text = [lines |-> <<>>, eol |-> 1]
    /\ shown = {}
    /\ single_calls = 0

\* a session works on one tab: with a file uploaded the text area is empty
SingleInit ==
    /\ single_pc = "idle"
    /\ scene_text \in SceneTexts
    /\ up.present => scene_text.lines = <<>>
    /\ shown = {}
    /\ single_calls = 0

\* a handler that draws the result cards whatever call_groq did
ShowFailure_Cards(msg) ==
    /\ shown' = {"error", "cards", "exports"}
    /\ single_pc' = "single_done"

\* lines 717-719: except Exception as e: st.error and return
ShowFailure(msg) ==
    /\ shown' = {"error"}
    /\ single_pc' = "single_failed"

\* lines 702-705: the click on Analyze Scene and the length guard
Analyze ==
    /\ single_pc = "idle"
    /\ pc = "idle"
    /\ IF scene_text.lines = <<>>
          \/ StrLenEol(Strip(scene_text.lines), scene_text.eol) < MinSingleLen
       THEN /\ shown' = {"warning"}
            /\ single_pc' = "single_warned"
       ELSE /\ shown' = {"spinner"}
            /\ single_pc' = "single_call"
    /\ UNCHANGED <<scene_text, single_calls, service, batchVars>>
    /\ UNCHANGED <<splitVars, recoverVars, normVars>>

\* call_groq, lines 304-311, called from line 710
SingleCallRefused ==
    /\ single_pc = "single_call"
    /\ ~api_key \/ ~groq_ok
    /\ ShowFailure(IF ~api_key THEN "no_api_key" ELSE "no_groq")
    /\ UNCHANGED <<scene_text, single_calls, service, batchVars>>
    /\ UNCHANGED <<splitVars, recoverVars, normVars>>

\* call_groq, lines 313-325: the request goes out
SingleCallSend ==
    /\ single_pc = "single_call"
    /\ api_key /\ groq_ok
    /\ single_calls' = single_calls + 1
    /\ single_pc' = "single_calling"
    /\ UNCHANGED <<scene_text, shown, service, batchVars>>
    /\ UNCHANGED <<splitVars, recoverVars, normVars>>

\* the request raises
SingleCallRaises ==
    /\ single_pc = "single_calling"
    /\ ServiceRaises
    /\ ShowFailure("transport")
    /\ UNCHANGED <<scene_text, single_calls, service, batchVars>>
    /\ UNCHANGED <<splitVars, recoverVars, normVars>>

\* the request returns a text: call_groq, lines 327-331, then either the
\* except clause or the cards and exports of lines 722-766
SingleCallReturns ==
    /\ single_pc = "single_calling"
    /\ \E reply \in ServiceReplies :
         IF ParseReply(reply).kind = "record"
         THEN /\ shown' = {"success", "cards", "exports"}
              /\ single_pc' = "single_done"
         ELSE ShowFailure("parse")
    /\ UNCHANGED <<scene_text, single_calls, service, batchVars>>
    /\ UNCHANGED <<splitVars, recoverVars, normVars>>

(***************************************************************************)
(* The documents scene_splitter is tried on.                               *)
(***************************************************************************)
BodyLens == {5, 14, 24, 29, 60}

Indents == {0, 2}

LineKinds ==
    {[pre |-> p, body |-> b, head |-> h] :
        p \in Indents, b \in BodyLens, h \in BOOLEAN}
    \cup {[pre |-> p, body |-> 0, head |-> FALSE] : p \in Indents}

Documents ==
    {[lines |-> ls, eol |-> e] : ls \in SeqsUpTo(LineKinds, MaxLines), e \in {1, 2}}

AsDocument(ls) == [lines |-> ls, eol |-> 1]

(***************************************************************************)
(* scene_splitter applied to a document, and again to its only segment.    *)
(***************************************************************************)
SplitIdle ==
    /\ script_text = [lines |-> <<>>, eol |-> 1]
    /\ scenes = <<>>
    /\ rescenes = <<>>
    /\ spc = "off"

SplitInit ==
    /\ script_text \in Documents
    /\ scenes = <<>>
    /\ rescenes = <<>>
    /\ spc = "input"

Split ==
    /\ spc = "input"
    /\ scenes' = scene_splitter(script_text)
    /\ spc' = "split"
    /\ UNCHANGED <<script_text, rescenes>>
    /\ UNCHANGED <<recoverVars, normVars, batchVars, service, singleVars>>

Resplit ==
    /\ spc = "split"
    /\ Len(scenes) = 1
    /\ rescenes' = scene_splitter(AsDocument(scenes[1]))
    /\ spc' = "resplit"
    /\ UNCHANGED <<script_text, scenes>>
    /\ UNCHANGED <<recoverVars, normVars, batchVars, service, singleVars>>

SplitNext == Split \/ Resplit

InitSplit == SplitInit /\ RecoverIdle /\ NormIdle /\ BatchIdle /\ SingleIdle

SpecSplit == InitSplit /\ [][SplitNext]_vars

RecoverNext == Recover

InitRecover ==
    RecoverInit /\ SplitIdle /\ NormIdle /\ BatchIdle /\ SingleIdle

SpecRecover == InitRecover /\ [][RecoverNext]_vars

NormNext ==
    \/ ClampIntensity
    \/ ReclampIntensity
    \/ ClampConfidence
    \/ ReclampConfidence
    \/ NormalizeHex

Init == BatchInit /\ SingleInit /\ SplitIdle /\ RecoverIdle /\ NormIdle

Next ==
    \/ BatchRun
    \/ CallGroqRefused
    \/ CallGroqSend
    \/ CallGroqRaises
    \/ CallGroqReturns
    \/ BatchFinish
    \/ Analyze
    \/ SingleCallRefused
    \/ SingleCallSend
    \/ SingleCallRaises
    \/ SingleCallReturns

Spec == Init /\ [][Next]_vars

InitNorm == NormInit /\ SplitIdle /\ RecoverIdle /\ BatchIdle /\ SingleIdle

SpecNorm == InitNorm /\ [][NormNext]_vars

(***************************************************************************)
(* Claims about scene_splitter (checked under SpecSplit).                  *)
(***************************************************************************)
RawLen(doc) == StrLenEol(doc.lines, doc.eol)

\* what the guard of scene_splitter lets through
NonTrivial(doc) ==
    RawLen(doc) > 0 /\ StrLenEol(Strip(doc.lines), doc.eol) >= MinScriptLen

SplitDone == spc \in {"split", "resplit"}

\* the heading lines of ls in document order
HeadingSeq(ls) ==
    LET H == HeadingLines(ls)
    IN  [k \in 1..Cardinality(H) |->
            CHOOSE h \in H : Cardinality({g \in H : g < h}) = k - 1]

\* the trimmed text from heading line h up to the next heading line
HeadingSegment(ls, h) ==
    LET later == {g \in HeadingLines(ls) : g > h}
        e == IF later = {} THEN Len(ls) ELSE SetMin(later) - 1
    IN  Strip(SubSeq(ls, h, e))

\* the trimmed text before the first heading line
LeadingText(ls) ==
    LET H == HeadingLines(ls)
    IN  IF H = {} THEN Strip(ls) ELSE Strip(SubSeq(ls, 1, SetMin(H) - 1))

LeadCount(ls) == IF StrLen(LeadingText(ls)) >= MinSceneLen THEN 1 ELSE 0

\* the segments the amended C6 expects: leading text and heading segments
\* of at least MinSceneLen characters, in document order
LongSegments(ls) ==
    LET hs == HeadingSeq(ls)
        segs == [k \in 1..Len(hs) |-> HeadingSegment(ls, hs[k])]
        lead == IF HeadingLines(ls) # {} /\ LeadCount(ls) = 1
                THEN <<LeadingText(ls)>> ELSE <<>>
    IN  lead \o SelectSeq(segs, LAMBDA p : StrLen(p) >= MinSceneLen)

AllHeadingsLong(ls) ==
    \A h \in HeadingLines(ls) : StrLen(HeadingSegment(ls, h)) >= MinSceneLen

StartsWithHeading(seg) == Len(seg) > 0 /\ IsHeadingAt(seg, 1)

\* C6 as stated: a document with N heading lines yields exactly N segments,
\* or N+1 when leading text of at least the minimum length precedes the
\* first heading; stated for the documents that pass the 30-character
\* guard.  (Refuted: heading segments under 60 characters are dropped.)
C6_ExactlyNSegments ==
    (SplitDone /\ NonTrivial(script_text) /\ HeadingLines(script_text.lines) # {}) =>
        LET ls == script_text.lines
            N == Cardinality(HeadingLines(ls))
        IN  Len(scenes) = N + LeadCount(ls)

\* C6 amended: for a document that passes the 30-character guard and has N
\* heading lines, the result holds exactly the heading segments (and the
\* leading text) whose trimmed length is at least 60, in document order,
\* each heading segment starting with its heading; so exactly N (or N+1)
\* segments when every heading segment has at least 60 characters; and when
\* nothing reaches 60 characters, the single trimmed document.
C6_LongSegmentsInOrder ==
    (SplitDone /\ NonTrivial(script_text) /\ HeadingLines(script_text.lines) # {}) =>
        LET ls == script_text.lines
            N == Cardinality(HeadingLines(ls))
            want == LongSegments(ls)
        IN  /\ want # <<>> => scenes = want
            /\ want = <<>> => scenes = <<Strip(ls)>>
            /\ AllHeadingsLong(ls) =>
                 /\ Len(scenes) = N + LeadCount(ls)
                 /\ \A k \in 1..N :
                       /\ StartsWithHeading(scenes[LeadCount(ls) + k])
                       /\ scenes[LeadCount(ls) + k] =
                            HeadingSegment(ls, HeadingSeq(ls)[k])

\* C6 witness: two heading lines, both segments long enough, two segments
C6_Witness ==
    /\ spc = "split"
    /\ Cardinality(HeadingLines(script_text.lines)) = 2
    /\ AllHeadingsLong(script_text.lines)
    /\ Len(scenes) = 2

\* C7: a non-trivial document with no heading line yields exactly one
\* segment, the trimmed document, and splitting that segment again yields
\* the same single segment.  (Refuted by the code: the 30-character guard
\* counts "\r\n" as two characters, the returned segment holds "\n".)
C7_NoHeadingsSingleSegment ==
    (SplitDone /\ NonTrivial(script_text) /\ HeadingLines(script_text.lines) = {}) =>
        /\ scenes = <<Strip(script_text.lines)>>
        /\ spc = "resplit" => rescenes = scenes

\* C8: scene_splitter returns a sequence for every document, and the empty
\* sequence for every document that is empty or under 30 characters,
\* with or without heading lines.
C8_ShortDocumentEmpty ==
    SplitDone =>
        /\ DOMAIN scenes = 1..Len(scenes)
        /\ \A k \in 1..Len(scenes) : StrLen(scenes[k]) > 0
        /\ RawLen(script_text) < MinScriptLen => scenes = <<>>

\* C8 witness: a split document under 30 characters that has a heading line
C8_Witness ==
    /\ spc = "split"
    /\ RawLen(script_text) > 0
    /\ RawLen(script_text) < MinScriptLen
    /\ HeadingLines(script_text.lines) # {}
    /\ scenes = <<>>

(***************************************************************************)
(* Claims about extract_json_loose as call_groq uses it (checked under     *)
(* SpecRecover).                                                           *)
(***************************************************************************)
\* a span of the text that starts with "{" and ends with "}"
HasBraceSpan(s) == \E i, j \in 1..Len(s) : i < j /\ s[i] = "{" /\ s[j] = "}"

\* the record the sample was rendered from came back, with the same keys
\* and the same values
RecoveredSampleRecord ==
    /\ data.kind = "record"
    /\ Dumps(data.val) = Dumps(sample.r)

\* C3: for every text that holds no span from a "{" to a later "}", the
\* outcome of recovery in call_groq is the parse error, never a record.
C3_NoBraceSpanIsParseError ==
    (rpc = "done" /\ ~HasBraceSpan(text)) => data.kind = "error"

\* C3 witness: a text without a brace span that json.loads parses directly
\* (a list, a number or a string) and that call_groq turned into the error
C3_Witness ==
    /\ rpc = "done"
    /\ ~HasBraceSpan(text)
    /\ Loads(text).ok
    /\ Loads(text).val.t = "arr"
    /\ data.kind = "error"

\* C4: for a valid record r, the serialisation of r with one trailing comma
\* injected before a closing brace or bracket is recovered as a record
\* equivalent to r, whatever r's string values hold.  (Refuted by the
\* code: the repair of line 202 also removes a comma that a string value
\* holds before a "}" or "]".)
C4_TrailingCommaRecovered ==
    (rpc = "done" /\ sample.kind = "record" /\ sample.comma > 0
        /\ sample.fence = "none" /\ ~sample.prose)
    => RecoveredSampleRecord

\* C5: for a valid record r, the serialisation of r wrapped in code-fence
\* markers, with or without a json tag, is recovered as r unchanged,
\* whatever characters r's string values hold.  (Refuted by the code: line
\* 186 removes three backticks wherever they stand, also inside a string
\* value.)
C5_FencedRecordUnchanged ==
    (rpc = "done" /\ sample.kind = "record" /\ sample.comma = 0
        /\ sample.fence \in FenceTags /\ ~sample.prose)
    => RecoveredSampleRecord

(***************************************************************************)
(* Claims about the clamps and normalize_hex (checked under SpecNorm).     *)
(***************************************************************************)
\* values that are no number at all
NotANumber(v) == v.t \in {"junk", "none", "list"}

\* values int() cannot parse: also a decimal string, nan and the infinities
NotAnInteger(v) == NotANumber(v) \/ v.t \in {"decstr", "nan", "inf", "ninf"}

\* C9: clamp_intensity returns a value in 1..10 for every input, an integer
\* already in 1..10 unchanged and the default 5 for input that cannot be
\* parsed; clamp_confidence does the same for 0..1 and the default 0.75;
\* clamping a clamped value changes nothing.
C9_ClampsTotalIdempotent ==
    /\ npc \in {"intensity", "intensity2"} =>
         /\ clamped \in MinIntensity..MaxIntensity
         /\ (arg.t = "int" /\ arg.h \in {100 * n : n \in 1..10}) => 100 * clamped = arg.h
         /\ NotAnInteger(arg) => clamped = 5
    /\ npc = "intensity2" => reclamped = clamped
    /\ npc \in {"confidence", "confidence2"} =>
         /\ clamped \in 0..100
         /\ (arg.t \in {"int", "float"} /\ arg.h \in 0..100) => clamped = arg.h
         /\ NotANumber(arg) => clamped = 75
    /\ npc = "confidence2" => reclamped = clamped

\* C9 witness: a float above the range clamped to 10 and clamped again
C9_Witness ==
    /\ npc = "intensity2"
    /\ arg.t = "float"
    /\ arg.h > 1000
    /\ clamped = 10
    /\ reclamped = 10

IsHexDigit(c) == c \in {"1"}

AllHex(s) == \A k \in 1..Len(s) : IsHexDigit(s[k])

\* the digits of a colour, without surrounding whitespace and leading "#"
HexCore(h) ==
    LET t == StripSpace(h)
    IN  IF Len(t) > 0 /\ t[1] = "#" THEN Tail(t) ELSE t

\* C10: for every input string normalize_hex returns a 7-character #RRGGBB
\* colour: six hexadecimal digits are kept, a 3-digit shorthand is expanded
\* by doubling each digit, and any other input (wrong length or characters
\* that are no hexadecimal digits) gives the default #111111.  (Refuted by
\* the code: it never looks at the characters, only at the length.)
C10_NormalizeHex ==
    npc = "hex" =>
        LET c == HexCore(hex)
        IN  /\ Len(colour) = 7
            /\ colour[1] = "#"
            /\ AllHex(Tail(colour))
            /\ IF Len(c) = 6 /\ AllHex(c) THEN colour = <<"#">> \o c
               ELSE IF Len(c) = 3 /\ AllHex(c)
                    THEN colour = <<"#", c[1], c[1], c[2], c[2], c[3], c[3]>>
               ELSE colour = HexDefault

(***************************************************************************)
(* Claims about the batch run.                                             *)
(***************************************************************************)
Failures == {"no_api_key", "no_groq", "transport", "parse"}

BatchRunning == pc \in {"batch_loop", "batch_calling", "batch_done"}

\* the number of outbound requests issued for scene k
CallsFor(k) == Cardinality({j \in 1..Len(calls) : calls[j] = k})

\* the requests were issued in scene order, none of them twice
CallsInSceneOrder ==
    \A j \in 1..Len(calls) : \A k \in 1..Len(calls) :
        j < k => calls[j] < calls[k]

\* a request is issued only when the one before has returned or raised
CallsSerial ==
    /\ Cardinality(inflight) <= 1
    /\ pc = "batch_calling" => inflight = {scene_i} /\ calls[Len(calls)] = scene_i
    /\ pc # "batch_calling" => inflight = {}

\* C1: in a batch run a failed analysis call (missing credential, missing
\* client library, transport failure, unparseable response) is caught and
\* recorded as the error row of its scene, the run goes on with the next
\* scene, and it ends only after every scene has been analysed, whatever
\* the pattern of successes and failures.
C1_FailureIsolated ==
    /\ pc \in {"idle", "batch_warned", "batch_loop", "batch_calling", "batch_done"}
    /\ BatchRunning =>
         /\ Len(outcomes) = scene_i - 1
         /\ Len(results) = Len(outcomes)
         /\ \A k \in 1..Len(outcomes) :
              /\ results[k].scene_index = k
              /\ results[k].failed <=> outcomes[k] \in Failures
              /\ results[k].failed => results[k].error = outcomes[k]
    /\ pc \in {"batch_loop", "batch_calling"} => ENABLED Next
    /\ pc = "batch_done" => Len(outcomes) = Len(run_scenes)

\* a finished run of three scenes: a transport failure, an unparseable
\* response, then a success
C1_Witness ==
    /\ pc = "batch_done"
    /\ outcomes = <<"transport", "parse", "ok">>
    /\ results[3].intensity = MaxIntensity

\* C2 as stated: exactly one outbound call per processed scene, in scene
\* order, one after another, never retried.
C2_ExactlyOneCall ==
    /\ \A k \in 1..Len(outcomes) : CallsFor(k) = 1
    /\ CallsInSceneOrder
    /\ CallsSerial

\* C2, amended: call_groq is invoked once per processed scene, in scene
\* order; an invocation issues at most one outbound call: exactly one
\* when the credential and the client library are present, none when
\* either is missing; the calls are issued one after another in scene
\* order and a failed one is never retried.
C2_AtMostOneCall ==
    /\ BatchRunning => Len(outcomes) = scene_i - 1
    /\ \A k \in 1..Len(outcomes) :
         /\ CallsFor(k) <= 1
         /\ CallsFor(k) = 1 <=> api_key /\ groq_ok
         /\ CallsFor(k) = 0 <=> outcomes[k] \in {"no_api_key", "no_groq"}
    /\ \A j \in 1..Len(calls) : calls[j] <= Len(run_scenes)
    /\ CallsInSceneOrder
    /\ CallsSerial

\* a finished run with the credential in which the first call failed and
\* the next scene was called
C2_Witness ==
    /\ pc = "batch_done"
    /\ api_key /\ groq_ok
    /\ outcomes[1] = "transport"
    /\ calls = <<1, 2, 3>>

(***************************************************************************)
(* Claims about the credential and the single scene tab.                   *)
(***************************************************************************)
\* the handler of a click went past its input checks, to call_groq
BatchAccepted == pc \in {"batch_loop", "batch_calling", "batch_done"}

SingleAccepted ==
    single_pc \in {"single_call", "single_calling", "single_failed", "single_done"}

\* C11: without the credential the application halts at startup, so no
\* state is reachable in which an analyse or a batch action has been
\* accepted while GROQ_API_KEY is absent.
C11_NoActionWithoutCredential ==
    ~api_key => ~BatchAccepted /\ ~SingleAccepted

\* C12: in single scene mode a failed analysis call (missing credential,
\* missing client library, transport failure, parse error) is caught: the
\* page shows the error message and nothing else, no cards and no exports,
\* at most one outbound call was issued, and the handler never stops
\* anywhere else than at its returns.
C12_SingleFailureShown ==
    /\ single_pc \in {"idle", "single_warned", "single_call", "single_calling",
                      "single_failed", "single_done"}
    /\ single_calls <= 1
    /\ single_pc = "single_failed" <=> "error" \in shown
    /\ "error" \in shown => shown = {"error"}
    /\ ~(api_key /\ groq_ok) /\ SingleAccepted =>
         single_calls = 0 /\ single_pc \in {"single_call", "single_failed"}
    /\ service = "down" /\ SingleAccepted => single_pc # "single_done"
    /\ "cards" \in shown \/ "exports" \in shown =>
         single_pc = "single_done" /\ "success" \in shown /\ single_calls = 1
    /\ single_pc \in {"single_call", "single_calling"} => ENABLED Next

\* a request went out, failed, and the page shows the error message
C12_Witness ==
    /\ single_pc = "single_failed"
    /\ single_calls = 1
    /\ shown = {"error"}
    /\ service = "down"

(***************************************************************************)
(* Claims about the batch summary and the scenes analysed.                 *)
(***************************************************************************)
\* the first n elements of a sequence, all of it when it is shorter
FirstN(sq, n) == SubSeq(sq, 1, IF Len(sq) < n THEN Len(sq) ELSE n)

SuccessRowOk(row) ==
    /\ ~row.failed
    /\ row.emotion.t \in {"str", "num", "arr", "obj"}
    /\ row.genre.t \in {"str", "num", "arr", "obj"}
    /\ row.tone.t \in {"str", "num", "arr", "obj"}
    /\ row.intensity \in MinIntensity..MaxIntensity
    /\ row.confidence \in MinConfidence..MaxConfidence

FailureRowOk(row) ==
    /\ row.failed
    /\ row.emotion = EmptyStr /\ row.genre = EmptyStr /\ row.tone = EmptyStr
    /\ row.intensity = 0 /\ row.confidence = 0
    /\ row.error \in Failures

\* C13: after a batch run over n processed scenes the summary has n rows,
\* row i has scene_index i and stands for the i-th scene in document
\* order; a success row has emotion, genre, tone, an intensity in 1..10
\* and a confidence in 0..1 and no error, a failure row has empty fields
\* and the error string.
C13_SummaryRows ==
    /\ BatchRunning => run_scenes = FirstN(scene_splitter(up.doc), MaxBatchScenes)
    /\ pc = "batch_done" => Len(results) = Len(run_scenes)
    /\ \A k \in 1..Len(results) :
         /\ results[k].scene_index = k
         /\ k <= Len(run_scenes)
         /\ outcomes[k] = "ok" => SuccessRowOk(results[k])
         /\ outcomes[k] # "ok" =>
              FailureRowOk(results[k]) /\ results[k].error = outcomes[k]

\* a finished run of three scenes: intensity 11 clamped to 10, a failure,
\* confidence 11 clamped to 1
C13_Witness ==
    /\ pc = "batch_done"
    /\ outcomes = <<"ok", "transport", "ok">>
    /\ results[1].intensity = MaxIntensity
    /\ results[1].confidence = DefaultConfidence
    /\ results[2].failed
    /\ results[3].intensity = DefaultIntensity
    /\ results[3].confidence = MaxConfidence

(***************************************************************************)
(* Claims about what call_groq returns.                                    *)
(***************************************************************************)
\* C14: call_groq returns only records: for every response text it either
\* returns a mapping or raises the parse error; a recovered value that is
\* not a mapping (a list, a number, a string or null parsed directly, or
\* nothing recovered at all) gives the parse error, and no value other
\* than a mapping reaches the caller.
C14_OnlyRecordsReturned ==
    rpc = "done" =>
        /\ data.kind \in {"record", "error"}
        /\ data.kind = "record" =>
             data.val.t = "obj" /\ extract_json_loose(text).t = "obj"
        /\ extract_json_loose(text).t # "obj" =>
             data.kind = "error" /\ data.val.t = "null"

\* a text that json.loads parses directly as a number, turned into the
\* parse error
C14_Witness ==
    /\ rpc = "done"
    /\ text # <<>>
    /\ Loads(text).ok
    /\ extract_json_loose(text).t = "num"
    /\ data.kind = "error"

\* C15: a batch run issues at most 12 outbound calls: of a document of
\* more than 12 scenes only the first 12, in document order, are analysed
\* and the others are skipped without a row; without an upload, or when
\* segmentation yields no scene, no call is issued at all.
C15_AtMostTwelveCalls ==
    /\ Len(calls) <= MaxBatchScenes
    /\ Len(results) <= MaxBatchScenes
    /\ \A j \in 1..Len(calls) : calls[j] \in 1..MaxBatchScenes
    /\ BatchRunning =>
         /\ up.present
         /\ Len(run_scenes) <= MaxBatchScenes
         /\ \A k \in 1..Len(run_scenes) : run_scenes[k] = scene_splitter(up.doc)[k]
         /\ Len(scene_splitter(up.doc)) <= MaxBatchScenes =>
              Len(run_scenes) = Len(scene_splitter(up.doc))
         /\ Len(scene_splitter(up.doc)) > MaxBatchScenes =>
              Len(run_scenes) = MaxBatchScenes
    /\ pc = "batch_done" /\ api_key /\ groq_ok =>
         calls = [j \in 1..Len(run_scenes) |-> j]
    /\ ~up.present \/ scene_splitter(up.doc) = <<>> =>
         calls = <<>> /\ results = <<>> /\ pc \in {"idle", "batch_warned"}

\* a finished run over a document of 13 scenes: 12 calls, the last one for
\* the 12th scene of the document
C15_Witness ==
    /\ pc = "batch_done"
    /\ Len(scene_splitter(up.doc)) = MaxBatchScenes + 1
    /\ Len(calls) = MaxBatchScenes
    /\ calls[MaxBatchScenes] = MaxBatchScenes
    /\ run_scenes[MaxBatchScenes] = <<LongDoc.lines[MaxBatchScenes]>>
    /\ Len(results) = MaxBatchScenes

(***************************************************************************)
(* Claims about the result of scene_splitter.                              *)
(***************************************************************************)
TrimmedLen(doc) == StrLenEol(Strip(doc.lines), doc.eol)

AllSegmentsShort(ls) ==
    /\ StrLen(LeadingText(ls)) < MinSceneLen
    /\ \A h \in HeadingLines(ls) : StrLen(HeadingSegment(ls, h)) < MinSceneLen

\* C16: for every document whose trimmed length is at least 30,
\* scene_splitter returns a non-empty sequence, and either every segment
\* has a trimmed length of at least 60 or the result is the single
\* fallback holding the whole trimmed document (its line endings
\* normalised); a document with heading lines whose every segment is
\* shorter than 60 comes back as one scene holding all its headings.
C16_NonEmptyLongOrFallback ==
    SplitDone /\ TrimmedLen(script_text) >= MinScriptLen =>
        /\ scenes # <<>>
        /\ \/ \A k \in 1..Len(scenes) : StrLen(Strip(scenes[k])) >= MinSceneLen
           \/ scenes = <<Strip(script_text.lines)>>
        /\ HeadingLines(script_text.lines) # {}
           /\ AllSegmentsShort(script_text.lines) =>
             /\ scenes = <<Strip(script_text.lines)>>
             /\ Cardinality(HeadingLines(scenes[1]))
                  >= Cardinality(HeadingLines(script_text.lines))

\* a document of at least 30 characters with two heading lines and no
\* segment of 60 characters, returned as one scene with both headings
C16_Witness ==
    /\ SplitDone
    /\ TrimmedLen(script_text) >= MinScriptLen
    /\ Cardinality(HeadingLines(script_text.lines)) = 2
    /\ AllSegmentsShort(script_text.lines)
    /\ Len(scenes) = 1
    /\ StrLen(scenes[1]) < MinSceneLen
    /\ Cardinality(HeadingLines(scenes[1])) = 2

====
